---- MODULE Spec2Model ----
(***************************************************************************)
(* A model of pgpx's connection layer (src/src/pgpx/connection.py):        *)
(* DatabaseConnection, the handle that owns at most one psycopg            *)
(* connection, and DatabaseClient, the persistent client that wraps one    *)
(* handle.  Physical connections are numbered resources; the psycopg       *)
(* driver is the environment: its connect() and close() may succeed or     *)
(* raise, and an open resource may be closed behind the handle's back.     *)
(***************************************************************************)
EXTENDS Integers, Sequences, FiniteSets, TLC

VARIABLES
    conn,        \* conn[h]: DatabaseConnection._connection of handle h (None or a resource)
    res,         \* res[r]: the physical connection r: "unopened", "open" or "closed"
    closeCalls,  \* closeCalls[r]: how often a handle invoked r.close()
    depth,       \* depth[h]: `with h:` blocks currently open on handle h
    client,      \* "unbuilt" before DatabaseClient.__init__ returned, "built" after
    cdepth,      \* `with client:` blocks currently open on the client
    last         \* the call that produced this state and how it ended

vars == <<conn, res, closeCalls, depth, client, cdepth, last>>

------------------------------------------------------------------------------
(* Bounds *)

\* physical connections the driver may open in one run
MaxConns == 2
\* nesting depth of `with` blocks on one object
MaxNest == 1
\* close() calls on one resource after which no further call is explored
MaxCloseCalls == 2
MaxRows == 2

------------------------------------------------------------------------------
(* Objects *)

\* Python's None in DatabaseConnection._connection
None == 0

Resources == 1..MaxConns

\* "own": a handle the application built itself; "owned": DatabaseClient._connection
ClientHandle == "owned"
Handles == {"own", ClientHandle}

\* The client's handle exists once the constructor has run its second line.
Alive(h) == h # ClientHandle \/ client = "built"

------------------------------------------------------------------------------
(* Exceptions *)

\* The classes pgpx.exceptions defines.  ConnectionError is the one of
\* pgpx.exceptions, not the builtin ConnectionError.
Kinds ==
    {"PgpxError", "ConnectionError", "SchemaError", "ValidationError", "QueryError",
     "PrimaryKeyError", "TransactionError", "MigrationError", "RelationshipError",
     "PoolError", "ExtensionError", "ORMError", "ConfigurationError"}

\* pgpx.exceptions with `class PrimaryKeyError(PgpxError)`
PgpxBase_flat(c) ==
    IF c = "PgpxError" THEN "Exception" ELSE "PgpxError"

\* the base each class statement of pgpx.exceptions names
PgpxBase(c) ==
    CASE c = "PgpxError" -> "Exception"
      [] c = "ConnectionError" -> "PgpxError"
      [] c = "SchemaError" -> "PgpxError"
      [] c = "ValidationError" -> "PgpxError"
      [] c = "QueryError" -> "PgpxError"
      [] c = "PrimaryKeyError" -> "SchemaError"
      [] c = "TransactionError" -> "PgpxError"
      [] c = "MigrationError" -> "PgpxError"
      [] c = "RelationshipError" -> "PgpxError"
      [] c = "PoolError" -> "PgpxError"
      [] c = "ExtensionError" -> "PgpxError"
      [] c = "ORMError" -> "PgpxError"
      [] c = "ConfigurationError" -> "PgpxError"

\* The classes met in connection.py and those of pgpx.exceptions, each with its
\* base class.
Base(c) ==
    CASE c \in Kinds -> PgpxBase(c)
      [] c = "psycopg.Error" -> "Exception"
      [] c = "psycopg.OperationalError" -> "psycopg.Error"
      [] c = "OSError" -> "Exception"
      [] c = "TypeError" -> "Exception"
      [] c = "AttributeError" -> "Exception"
      [] c = "ValueError" -> "Exception"
      [] c = "Exception" -> "BaseException"
      [] OTHER -> "object"

RECURSIVE IsSubclass(_, _)
IsSubclass(c, d) ==
    IF c = d THEN TRUE
    ELSE IF c \in {"object", "None"} THEN FALSE
    ELSE IsSubclass(Base(c), d)

\* str(e) of the driver's errors, as sequences of words
ErrTexts == { <<"timeout">>, <<"auth", "failed">> }

NoOrig == [type |-> "None", text |-> <<>>]
NoExc == [type |-> "None", msg |-> <<>>, cause |-> NoOrig, context |-> NoOrig]

\* an exception raised outside any handler: no __cause__, no __context__
Raw(type, text) == [type |-> type, msg |-> text, cause |-> NoOrig, context |-> NoOrig]

\* `raise new` inside `except ... as e`: Python sets __context__ to e and leaves
\* __cause__ unset
RaiseInHandler(new, e) == [new EXCEPT !.context = e]

\* the exception the `with` body raises in the runs that leave it by a failure
BodyExc == Raw("ValueError", <<"Test", "exception">>)

\* whether sequence t occurs in sequence s (Python's `t in s` on strings)
Contains(s, t) ==
    \E i \in 1..(Len(s) - Len(t) + 1) : SubSeq(s, i, i + Len(t) - 1) = t

------------------------------------------------------------------------------
(* The driver *)

DriverOk == [ok |-> TRUE, type |-> "None", text |-> <<>>]

\* The ways one psycopg.connect(**params) call can end: it returns a new open
\* connection; it raises the driver's error (psycopg.OperationalError, a
\* subclass of psycopg.Error) with one of the texts; or the call raises
\* TypeError for arguments it cannot take (keywords that are not strings).
DriverOutcomes ==
    {DriverOk} \cup
    { [ok |-> FALSE, type |-> "psycopg.OperationalError", text |-> x] : x \in ErrTexts } \cup
    { [ok |-> FALSE, type |-> "TypeError", text |-> <<"keywords", "must", "be", "strings">>] }

\* The ways one close() call on a connection can end: it returns; it raises the
\* driver's error after the socket was released; it raises OSError with the
\* connection still open.
CloseOk == [ok |-> TRUE, type |-> "None", released |-> TRUE]
CloseOutcomes ==
    { CloseOk,
      [ok |-> FALSE, type |-> "psycopg.OperationalError", released |-> TRUE],
      [ok |-> FALSE, type |-> "OSError", released |-> FALSE] }

\* the exception object the driver raised in outcome d (NoOrig: none)
Orig(d) == IF d.ok THEN NoOrig ELSE [type |-> d.type, text |-> d.text]

Opened == Cardinality({r \in Resources : res[r] # "unopened"})
NextId == Opened + 1

------------------------------------------------------------------------------
(* DatabaseConnection *)

\* is_connected() without the `and not self._connection.closed`
is_connected_reference_only(h) == conn[h] # None

\* is_connected(): self._connection is not None and not self._connection.closed
is_connected(h) == conn[h] # None /\ res[conn[h]] # "closed"

\* the `connection` property: what it raises (NoExc when it returns) ...
connection_exc(h) ==
    IF conn[h] = None
    THEN Raw("ConnectionError", <<"Not", "connected", "to", "database">>)
    ELSE NoExc

\* ... and what it returns when it does: the psycopg connection it holds
connection(h) == [kind |-> "resource", value |-> conn[h]]

FailedToConnect == <<"Failed", "to", "connect", "to", "database:">>

\* connect() with a message that leaves out {e}
connect_exc_without_text(d) ==
    IF d.ok THEN NoExc
    ELSE IF IsSubclass(d.type, "psycopg.Error")
         THEN RaiseInHandler(Raw("ConnectionError", FailedToConnect), Orig(d))
         ELSE Raw(d.type, d.text)

\* the exception connect() ends with for driver outcome d (NoExc: it returns
\* self): `except psycopg.Error as e: raise ConnectionError(f"...: {e}")`
connect_exc(d) ==
    IF d.ok THEN NoExc
    ELSE IF IsSubclass(d.type, "psycopg.Error")
         THEN RaiseInHandler(Raw("ConnectionError", FailedToConnect \o d.text), Orig(d))
         ELSE Raw(d.type, d.text)

\* connect() with the driver's result dropped instead of stored
connect_effect_not_stored(h, d) ==
    /\ d.ok => Opened < MaxConns
    /\ IF d.ok
       THEN res' = [res EXCEPT ![NextId] = "open"] /\ UNCHANGED conn
       ELSE UNCHANGED <<res, conn>>
    /\ UNCHANGED closeCalls

\* connect() with _connection an attribute of the class, which all handles share
connect_effect_shared(h, d) ==
    /\ d.ok => Opened < MaxConns
    /\ IF d.ok
       THEN /\ res' = [res EXCEPT ![NextId] = "open"]
            /\ conn' = [g \in Handles |-> NextId]
       ELSE UNCHANGED <<res, conn>>
    /\ UNCHANGED closeCalls

\* connect()'s effect on the state for driver outcome d
connect_effect(h, d) ==
    /\ d.ok => Opened < MaxConns
    /\ IF d.ok
       THEN /\ res' = [res EXCEPT ![NextId] = "open"]
            /\ conn' = [conn EXCEPT ![h] = NextId]
       ELSE UNCHANGED <<res, conn>>
    /\ UNCHANGED closeCalls

\* disconnect() with `except psycopg.Error: pass` in place of `except Exception`
disconnect_raises_narrow(h, c) ==
    conn[h] # None /\ ~c.ok /\ ~IsSubclass(c.type, "psycopg.Error")

\* whether disconnect() lets the failure of close() out: `except Exception: pass`
disconnect_raises(h, c) ==
    conn[h] # None /\ ~c.ok /\ ~IsSubclass(c.type, "Exception")

\* disconnect() without the `finally: self._connection = None`
disconnect_effect_ref_kept(h, c) ==
    IF conn[h] # None
    THEN /\ closeCalls[conn[h]] < MaxCloseCalls
         /\ closeCalls' = [closeCalls EXCEPT ![conn[h]] = @ + 1]
         /\ res' = [res EXCEPT ![conn[h]] = IF c.released THEN "closed" ELSE @]
         /\ UNCHANGED conn
    ELSE /\ c = CloseOk
         /\ UNCHANGED <<conn, res, closeCalls>>

\* disconnect()'s effect on the state for close outcome c
disconnect_effect(h, c) ==
    IF conn[h] # None
    THEN /\ closeCalls[conn[h]] < MaxCloseCalls
         /\ closeCalls' = [closeCalls EXCEPT ![conn[h]] = @ + 1]
         /\ res' = [res EXCEPT ![conn[h]] = IF c.released THEN "closed" ELSE @]
         /\ conn' = [conn EXCEPT ![h] = None]
    ELSE /\ c = CloseOk
         /\ UNCHANGED <<conn, res, closeCalls>>

\* What a call returns when it does not raise: connect() and __enter__ return
\* self (the handle, or the client for the client's methods); the constructor
\* gives the new client; disconnect() and __exit__ return None.
returns(op, h) ==
    CASE op \in {"connect", "enter"} -> h
      [] op \in {"client_connect", "client_enter", "client_init"} -> "client"
      [] OTHER -> "None"

\* For each handle inside a `with` block, the connection that the __enter__ of
\* its outermost block opened; kept in the record of the __exit__ that ends
\* the block and dropped after it.
Entered == [g \in Handles |-> IF depth[g] > 0 THEN last.entered[g] ELSE None]

\* the record of a call: op on handle h, which held `pre` when called; what it
\* raised; what the driver's connect raised in it (drv); whether a close() it
\* made failed; how the `with` body ended (for __exit__); what it returned;
\* and the connections the `with` blocks in progress opened (entered)
Log(op, h, exc, d, c, how) ==
    [op |-> op, h |-> h, pre |-> conn[h], raised |-> exc # NoExc, exc |-> exc,
     drv |-> Orig(d), closeFailed |-> ~c.ok, how |-> how,
     ret |-> IF exc # NoExc THEN "raised" ELSE returns(op, h),
     entered |-> Entered]

connect(h) ==
    /\ Alive(h)
    /\ \E d \in DriverOutcomes :
        /\ connect_effect(h, d)
        /\ last' = Log("connect", h, connect_exc(d), d, CloseOk, "call")
    /\ UNCHANGED <<depth, client, cdepth>>

disconnect(h) ==
    /\ Alive(h)
    /\ \E c \in CloseOutcomes :
        /\ disconnect_effect(h, c)
        /\ last' = Log("disconnect", h,
                       IF disconnect_raises(h, c) THEN Raw(c.type, <<>>) ELSE NoExc,
                       DriverOk, c, "call")
    /\ UNCHANGED <<depth, client, cdepth>>

\* __enter__: return self.connect()
enter(h) ==
    /\ Alive(h)
    /\ depth[h] < MaxNest
    /\ \E d \in DriverOutcomes :
        /\ connect_effect(h, d)
        /\ depth' = [depth EXCEPT ![h] = IF d.ok THEN @ + 1 ELSE @]
        /\ last' = [Log("enter", h, connect_exc(d), d, CloseOk, "call")
                       EXCEPT !.entered[h] = IF d.ok /\ depth[h] = 0 THEN NextId ELSE @]
    /\ UNCHANGED <<client, cdepth>>

\* __exit__ ending with `return True`, which tells `with` to drop the failure
exit_exc_suppressed(how) == NoExc

\* __exit__ returns None, so a failure of the body goes on to the caller
exit_exc(how) == IF how = "raise" THEN BodyExc ELSE NoExc

\* __exit__ with `pass` for a body, as DatabaseClient's
exit_without_disconnect(h, how) ==
    /\ Alive(h)
    /\ depth[h] > 0
    /\ last' = Log("exit", h, exit_exc(how), DriverOk, CloseOk, how)
    /\ depth' = [depth EXCEPT ![h] = @ - 1]
    /\ UNCHANGED <<conn, res, closeCalls, client, cdepth>>

\* __exit__(exc_type, exc_val, exc_tb): self.disconnect(); the body was left
\* normally (how = "normal") or by raising BodyExc (how = "raise")
exit(h, how) ==
    /\ Alive(h)
    /\ depth[h] > 0
    /\ \E c \in CloseOutcomes :
        /\ disconnect_effect(h, c)
        /\ last' = Log("exit", h,
                       IF disconnect_raises(h, c) THEN Raw(c.type, <<>>)
                       ELSE exit_exc(how),
                       DriverOk, c, how)
    /\ depth' = [depth EXCEPT ![h] = @ - 1]
    /\ UNCHANGED <<client, cdepth>>

------------------------------------------------------------------------------
(* DatabaseClient *)

\* __init__ without the `if auto_connect: self._connection.connect()`
client_init_effect_no_connect(auto_connect, d) == UNCHANGED <<conn, res, closeCalls>>

\* `if auto_connect: self._connection.connect()` in __init__
client_init_effect(auto_connect, d) ==
    IF auto_connect
    THEN connect_effect(ClientHandle, d)
    ELSE UNCHANGED <<conn, res, closeCalls>>

\* __init__(connection_params, auto_connect): builds the handle and, with
\* auto_connect, connects it; a failure of connect() leaves no client behind
client_init(auto_connect) ==
    /\ client = "unbuilt"
    /\ \E d \in DriverOutcomes :
        /\ auto_connect \/ d = DriverOk
        /\ client_init_effect(auto_connect, d)
        /\ client' = IF auto_connect /\ ~d.ok THEN "unbuilt" ELSE "built"
        /\ last' = Log("client_init", ClientHandle, connect_exc(d), d, CloseOk,
                       IF auto_connect THEN "auto" ELSE "manual")
    /\ UNCHANGED <<depth, cdepth>>

\* the `connection` property of the client: return self._connection, which is
\* the DatabaseConnection handle; it has no raise statement
client_connection == [kind |-> "handle", value |-> ClientHandle]
client_connection_exc == NoExc

\* is_connected(): return self._connection.is_connected()
client_is_connected == is_connected(ClientHandle)

\* DatabaseClient.connect without the `if not self._connection.is_connected()`
client_connect_effect_always(d) == connect_effect(ClientHandle, d)

\* the body of DatabaseClient.connect: connect the handle unless it is connected
client_connect_effect(d) ==
    IF ~is_connected(ClientHandle)
    THEN connect_effect(ClientHandle, d)
    ELSE d = DriverOk /\ UNCHANGED <<conn, res, closeCalls>>

client_connect ==
    /\ client = "built"
    /\ \E d \in DriverOutcomes :
        /\ client_connect_effect(d)
        /\ last' = Log("client_connect", ClientHandle, connect_exc(d), d, CloseOk, "call")
    /\ UNCHANGED <<depth, client, cdepth>>

\* disconnect(): self._connection.disconnect()
client_disconnect ==
    /\ client = "built"
    /\ \E c \in CloseOutcomes :
        /\ disconnect_effect(ClientHandle, c)
        /\ last' = Log("client_disconnect", ClientHandle,
                       IF disconnect_raises(ClientHandle, c) THEN Raw(c.type, <<>>)
                       ELSE NoExc,
                       DriverOk, c, "call")
    /\ UNCHANGED <<depth, client, cdepth>>

\* __enter__: self.connect(); return self
client_enter ==
    /\ client = "built"
    /\ cdepth < MaxNest
    /\ \E d \in DriverOutcomes :
        /\ client_connect_effect(d)
        /\ cdepth' = IF d.ok THEN cdepth + 1 ELSE cdepth
        /\ last' = Log("client_enter", ClientHandle, connect_exc(d), d, CloseOk, "call")
    /\ UNCHANGED <<depth, client>>

\* DatabaseClient.__exit__ with self.disconnect() for a body, as the handle's
client_exit_effect_disconnect ==
    \E c \in CloseOutcomes : disconnect_effect(ClientHandle, c)

\* the body of DatabaseClient.__exit__: pass
client_exit_effect == UNCHANGED <<conn, res, closeCalls>>

\* __exit__(exc_type, exc_val, exc_tb)
client_exit(how) ==
    /\ client = "built"
    /\ cdepth > 0
    /\ client_exit_effect
    /\ cdepth' = cdepth - 1
    /\ last' = Log("client_exit", ClientHandle, exit_exc(how), DriverOk, CloseOk, how)
    /\ UNCHANGED <<depth, client>>

------------------------------------------------------------------------------
(* The environment *)

\* An open physical connection is closed without any call on a handle: the
\* backend drops it, or a caller closes the object the accessor gave it.  The
\* resource then reports closed = True.
closed_out_of_band(r) ==
    /\ res[r] = "open"
    /\ res' = [res EXCEPT ![r] = "closed"]
    /\ last' = [op |-> "closed_out_of_band", h |-> "own", pre |-> r, raised |-> FALSE,
                exc |-> NoExc, drv |-> NoOrig, closeFailed |-> FALSE, how |-> "call",
                ret |-> "None", entered |-> Entered]
    /\ UNCHANGED <<conn, closeCalls, depth, client, cdepth>>

------------------------------------------------------------------------------
Init ==
    /\ conn = [h \in Handles |-> None]
    /\ res = [r \in Resources |-> "unopened"]
    /\ closeCalls = [r \in Resources |-> 0]
    /\ depth = [h \in Handles |-> 0]
    /\ client = "unbuilt"
    /\ cdepth = 0
    /\ last = [op |-> "init", h |-> "own", pre |-> None, raised |-> FALSE,
               exc |-> NoExc, drv |-> NoOrig, closeFailed |-> FALSE, how |-> "call",
               ret |-> "None", entered |-> [h \in Handles |-> None]]

Next ==
    \/ \E h \in Handles : connect(h)
    \/ \E h \in Handles : disconnect(h)
    \/ \E h \in Handles : enter(h)
    \/ \E h \in Handles, how \in {"normal", "raise"} : exit(h, how)
    \/ \E a \in BOOLEAN : client_init(a)
    \/ client_connect
    \/ client_disconnect
    \/ client_enter
    \/ \E how \in {"normal", "raise"} : client_exit(how)
    \/ \E r \in Resources : closed_out_of_band(r)

Spec == Init /\ [][Next]_vars

------------------------------------------------------------------------------
(* Values: parameter normalisation, the exception classes, the clause types.
   These are functions of their arguments; a call of one leaves the
   connections alone and is recorded in `last`.  A behaviour is one call, made
   with any arguments, in the state before any call on a handle. *)

\* the connection state, which no call on a value touches
handles == <<conn, res, closeCalls, depth, client, cdepth>>

\* Mappings from parameter names to values ({} is the one with no keys)
ParamKeys == {"host", "port"}
ParamVals == {"localhost", "5432"}
Mappings == UNION { [K -> ParamVals] : K \in SUBSET ParamKeys }
EmptyMapping == [k \in {} |-> "5432"]

\* What may be passed as connection_params: a dict (isdict, with its items), an
\* object with a to_dict method (and what the method returns), a dict subclass
\* that has to_dict as well, or anything else (None, a string, a list).
ParamInputs ==
    { [isdict |-> TRUE, items |-> m, has_to_dict |-> FALSE, to_dict |-> EmptyMapping]
        : m \in Mappings } \cup
    { [isdict |-> FALSE, items |-> EmptyMapping, has_to_dict |-> TRUE, to_dict |-> t]
        : t \in Mappings } \cup
    { [isdict |-> TRUE, items |-> m, has_to_dict |-> TRUE, to_dict |-> t]
        : m \in Mappings, t \in Mappings } \cup
    { [isdict |-> FALSE, items |-> EmptyMapping, has_to_dict |-> FALSE,
       to_dict |-> EmptyMapping] }

\* _normalize_params with the hasattr(params, "to_dict") branch left out
normalize_params_dict_only(params) ==
    IF params.isdict THEN params.items ELSE EmptyMapping

\* whether what _normalize_params returns is the object it was given:
\* `return params` (line 39) as against the result of to_dict() or a new {}
normalize_params_is_params(params) == ~params.has_to_dict /\ params.isdict

\* _normalize_params(params)
normalize_params(params) ==
    IF params.has_to_dict
    THEN params.to_dict
    ELSE IF params.isdict THEN params.items ELSE EmptyMapping

\* DatabaseConnection(params): the constructor stores the normalised parameters
\* and no connection; it has no raise and calls nothing but _normalize_params
DatabaseConnection(params) ==
    /\ last.op = "init"
    /\ last' = [op |-> "DatabaseConnection", arg |-> params, raised |-> FALSE,
                connection_params |-> normalize_params(params), connection |-> None,
                same_object |-> normalize_params_is_params(params)]
    /\ UNCHANGED handles

\* The caller, who keeps the object passed to the constructor, assigns
\* params[k] = v on it when it is a dict.  An attribute that is the same
\* object shows the assignment; what to_dict() returned does not.
caller_assigns(k, v) ==
    /\ last.op = "DatabaseConnection"
    /\ last.arg.isdict
    /\ LET items == [x \in DOMAIN last.arg.items \cup {k} |->
                       IF x = k THEN v ELSE last.arg.items[x]]
       IN last' = [op |-> "caller_assigns", arg |-> [last.arg EXCEPT !.items = items],
                   raised |-> FALSE,
                   connection_params |-> IF last.same_object THEN items
                                         ELSE last.connection_params,
                   connection |-> None, same_object |-> last.same_object,
                   at_construction |-> last.connection_params]
    /\ UNCHANGED handles

\* connect() on the handle: psycopg.connect(**self.connection_params) gets the
\* items the attribute has now as its keyword arguments
connect_kwargs ==
    /\ last.op \in {"DatabaseConnection", "caller_assigns"}
    /\ last' = [op |-> "psycopg.connect", raised |-> FALSE,
                kwargs |-> last.connection_params,
                at_construction |-> IF last.op = "caller_assigns"
                                    THEN last.at_construction
                                    ELSE last.connection_params,
                after |-> last.op]
    /\ UNCHANGED handles

\* try: raise raised(...)  except handler: ...   -- the clause catches the error
\* when its class is the handler's class or a subclass of it
except_clause(raised, handler) ==
    /\ last.op = "init"
    /\ last' = [op |-> "except", raised |-> TRUE, exc |-> Raw(raised, <<"msg">>),
                handler |-> handler, caught |-> IsSubclass(raised, handler)]
    /\ UNCHANGED handles

\* The classes types.py decorates with @dataclass
Classes ==
    {"JoinClause", "WhereClause", "OrderByClause", "QueryResult",
     "ForeignKeyReference", "RelationshipInfo", "ForeignKeyInfo"}

\* the attributes an instance has once its constructor has run
Attrs(cls) ==
    CASE cls = "JoinClause" -> {"table", "on", "join_type", "alias"}
      [] cls = "WhereClause" -> {"column", "operator", "value", "logical_op"}
      [] cls = "OrderByClause" -> {"column", "ascending"}
      [] cls = "QueryResult" -> {"data", "affected_rows"}
      [] cls = "ForeignKeyReference" -> {"model", "field"}
      [] cls = "RelationshipInfo" ->
           {"name", "related_model", "foreign_key", "back_populates", "lazy", "cascade"}
      [] cls = "ForeignKeyInfo" ->
           {"field", "ref_table", "ref_field", "on_delete", "on_update"}

\* The fields @dataclass finds: the names annotated in the class body.
\* QueryResult annotates none: it sets data and affected_rows in an __init__
\* of its own, so it has no fields.
Fields(cls) == IF cls = "QueryResult" THEN {} ELSE Attrs(cls)

\* values: two for every attribute of the clauses; rows and row sequences and
\* two counts for a QueryResult
FieldVals == {"v1", "v2"}
Rows == {"row1", "row2"}
RowSeqs == UNION { [1..n -> Rows] : n \in 0..MaxRows }
AttrVals(cls, f) ==
    IF cls = "QueryResult"
    THEN IF f = "data" THEN RowSeqs ELSE 0..1
    ELSE FieldVals

\* the instances the constructors give
Instances(cls) ==
    IF cls = "QueryResult"
    THEN { [cls |-> cls, attrs |-> [data |-> d, affected_rows |-> n]]
             : d \in RowSeqs, n \in 0..1 }
    ELSE { [cls |-> cls, attrs |-> a] : a \in [Attrs(cls) -> FieldVals] }

\* QueryResult.last() returning the row first() returns
QueryResult_last_as_first(self) ==
    IF Len(self.attrs.data) > 0 THEN self.attrs.data[1] ELSE "None"

\* __bool__, __len__, first(), last() of a QueryResult; a list is true when it
\* has an element, data[0] is the first and data[-1] the last
QueryResult_bool(self) == Len(self.attrs.data) > 0
QueryResult_len(self) == Len(self.attrs.data)
QueryResult_first(self) ==
    IF Len(self.attrs.data) > 0 THEN self.attrs.data[1] ELSE "None"
QueryResult_last(self) ==
    IF Len(self.attrs.data) > 0 THEN self.attrs.data[Len(self.attrs.data)] ELSE "None"

\* a QueryResult is built and asked for its truth value, length and ends
QueryResult(data, affected_rows) ==
    LET self == [cls |-> "QueryResult",
                 attrs |-> [data |-> data, affected_rows |-> affected_rows]]
    IN /\ last.op = "init"
       /\ last' = [op |-> "QueryResult", self |-> self, raised |-> FALSE,
                   bool |-> QueryResult_bool(self), len |-> QueryResult_len(self),
                   first |-> QueryResult_first(self), last |-> QueryResult_last(self)]
       /\ UNCHANGED handles

\* the classes were they decorated @dataclass(frozen=True)
frozen_all(cls) == TRUE

\* whether the decorator of the class asks for frozen instances: each is the
\* bare @dataclass
frozen(cls) == FALSE

\* obj.f = value: a frozen dataclass raises FrozenInstanceError and keeps the
\* attribute, any other object takes the value
setattr_exc(obj, f, value) ==
    IF frozen(obj.cls)
    THEN Raw("FrozenInstanceError", <<"cannot", "assign", "to", "field">>)
    ELSE NoExc
setattr_result(obj, f, value) ==
    IF frozen(obj.cls) THEN obj ELSE [obj EXCEPT !.attrs[f] = value]

setattr(obj, f, value) ==
    /\ last.op = "init"
    /\ last' = [op |-> "setattr", before |-> obj, field |-> f, value |-> value,
                raised |-> setattr_exc(obj, f, value) # NoExc,
                after |-> setattr_result(obj, f, value)]
    /\ UNCHANGED handles

\* a == b with the __eq__ @dataclass generates: instances of one class are
\* compared by the tuples of their fields; for different classes it returns
\* NotImplemented on both sides and == falls back to identity
eq(a, b) ==
    a.cls = b.cls /\ \A f \in Fields(a.cls) : a.attrs[f] = b.attrs[f]

compare(a, b) ==
    /\ last.op = "init"
    /\ last' = [op |-> "eq", a |-> a, b |-> b, raised |-> FALSE, result |-> eq(a, b)]
    /\ UNCHANGED handles

\* The Enum classes of types.py: the members of each in the order of the class
\* body, each a pair of its name and its value.
ConflictAction == << <<"DO_NOTHING", "DO NOTHING">>, <<"DO_UPDATE", "DO UPDATE">> >>
FieldType ==
    << <<"TEXT", "TEXT">>, <<"INTEGER", "INTEGER">>, <<"FLOAT", "FLOAT">>,
       <<"BOOLEAN", "BOOLEAN">>, <<"BYTEA", "BYTEA">>, <<"TIMESTAMP", "TIMESTAMP">>,
       <<"DATE", "DATE">>, <<"UUID", "UUID">>, <<"JSON", "JSON">>,
       <<"JSONB", "JSONB">>, <<"ARRAY", "ARRAY">> >>
JoinType ==
    << <<"INNER", "INNER JOIN">>, <<"LEFT", "LEFT JOIN">>,
       <<"RIGHT", "RIGHT JOIN">>, <<"FULL", "FULL JOIN">> >>
ComparisonOperator ==
    << <<"EQ", "=">>, <<"NE", "!=">>, <<"LT", "<">>, <<"LTE", "<=">>,
       <<"GT", ">">>, <<"GTE", ">=">>, <<"LIKE", "LIKE">>, <<"ILIKE", "ILIKE">>,
       <<"IN", "IN">>, <<"NOT_IN", "NOT IN">>, <<"IS_NULL", "IS NULL">>,
       <<"IS_NOT_NULL", "IS NOT NULL">>, <<"BETWEEN", "BETWEEN">>,
       <<"EXISTS", "EXISTS">> >>
LogicalOperator == << <<"AND", "AND">>, <<"OR", "OR">>, <<"NOT", "NOT">> >>
MigrationDirection == << <<"UP", "up">>, <<"DOWN", "down">> >>
IsolationLevel ==
    << <<"READ_UNCOMMITTED", "READ UNCOMMITTED">>, <<"READ_COMMITTED", "READ COMMITTED">>,
       <<"REPEATABLE_READ", "REPEATABLE READ">>, <<"SERIALIZABLE", "SERIALIZABLE">> >>
RelationshipType ==
    << <<"ONE_TO_ONE", "one-to-one">>, <<"ONE_TO_MANY", "one-to-many">>,
       <<"MANY_TO_ONE", "many-to-one">>, <<"MANY_TO_MANY", "many-to-many">> >>

Enums ==
    {"ConflictAction", "FieldType", "JoinType", "ComparisonOperator",
     "LogicalOperator", "MigrationDirection", "IsolationLevel", "RelationshipType"}

\* the class bodies with MigrationDirection's DOWN given the value of UP
EnumBody_down_as_up(enum) ==
    CASE enum = "ConflictAction" -> ConflictAction
      [] enum = "FieldType" -> FieldType
      [] enum = "JoinType" -> JoinType
      [] enum = "ComparisonOperator" -> ComparisonOperator
      [] enum = "LogicalOperator" -> LogicalOperator
      [] enum = "MigrationDirection" -> << <<"UP", "up">>, <<"DOWN", "up">> >>
      [] enum = "IsolationLevel" -> IsolationLevel
      [] enum = "RelationshipType" -> RelationshipType

EnumBody(enum) ==
    CASE enum = "ConflictAction" -> ConflictAction
      [] enum = "FieldType" -> FieldType
      [] enum = "JoinType" -> JoinType
      [] enum = "ComparisonOperator" -> ComparisonOperator
      [] enum = "LogicalOperator" -> LogicalOperator
      [] enum = "MigrationDirection" -> MigrationDirection
      [] enum = "IsolationLevel" -> IsolationLevel
      [] enum = "RelationshipType" -> RelationshipType

\* Enum makes a member of each name whose value no earlier name of the body
\* has; a later name with the same value is an alias of the earlier member.
EnumMembers(enum) ==
    LET body == EnumBody(enum)
    IN { body[i][1] : i \in { j \in 1..Len(body) :
                                \A k \in 1..(j - 1) : body[k][2] # body[j][2] } }

\* the value of the member named m
EnumValue(enum, m) ==
    LET body == EnumBody(enum)
    IN body[CHOOSE i \in 1..Len(body) : body[i][1] = m][2]

\* enum(text), the lookup by value: the first member of the body with that
\* value; ValueError when there is none
EnumHas(enum, text) ==
    \E i \in 1..Len(EnumBody(enum)) : EnumBody(enum)[i][2] = text
EnumLookup(enum, text) ==
    LET body == EnumBody(enum)
        i == CHOOSE j \in 1..Len(body) :
                 /\ body[j][2] = text
                 /\ \A k \in 1..(j - 1) : body[k][2] # text
    IN body[i][1]

\* The texts looked up: every value of every class, and texts that are no
\* value: a member's name, a value in the other case, the empty string.
EnumTexts ==
    UNION { { EnumBody(enum)[i][2] : i \in 1..Len(EnumBody(enum)) } : enum \in Enums }
    \cup {"DO_NOTHING", "inner join", "Inner Join", "INNER", "==", "and", "Up",
          "READ_COMMITTED", "one_to_one", ""}

\* enum(text), then .value of the member found
enum_lookup(enum, text) ==
    /\ last.op = "init"
    /\ last' = IF EnumHas(enum, text)
               THEN [op |-> "enum", enum |-> enum, arg |-> text, raised |-> FALSE,
                     exc |-> NoExc, member |-> EnumLookup(enum, text),
                     value |-> EnumValue(enum, EnumLookup(enum, text))]
               ELSE [op |-> "enum", enum |-> enum, arg |-> text, raised |-> TRUE,
                     exc |-> Raw("ValueError", <<text, "is", "not", "a", "valid", enum>>),
                     member |-> "None", value |-> "None"]
    /\ UNCHANGED handles

\* the fields of the clause classes that the class body gives no default
Required(cls) ==
    CASE cls = "JoinClause" -> {"table", "on"}
      [] cls = "WhereClause" -> {"column", "operator", "value"}
      [] cls = "OrderByClause" -> {"column"}
      [] cls = "ForeignKeyReference" -> {"model"}
      [] cls = "RelationshipInfo" -> {"name", "related_model", "foreign_key"}
      [] cls = "ForeignKeyInfo" -> {"field", "ref_table"}

\* the class bodies with `= None` for every default
Default_none(cls, f) == "None"

\* the default the class body gives field f
Default(cls, f) ==
    CASE cls = "JoinClause" /\ f = "join_type" -> "JoinType.INNER"
      [] cls = "JoinClause" /\ f = "alias" -> "None"
      [] cls = "WhereClause" /\ f = "logical_op" -> "LogicalOperator.AND"
      [] cls = "OrderByClause" /\ f = "ascending" -> "True"
      [] cls = "ForeignKeyReference" /\ f = "field" -> "id"
      [] cls = "RelationshipInfo" /\ f = "back_populates" -> "None"
      [] cls = "RelationshipInfo" /\ f = "lazy" -> "True"
      [] cls = "RelationshipInfo" /\ f = "cascade" -> "None"
      [] cls = "ForeignKeyInfo" /\ f = "ref_field" -> "id"
      [] cls = "ForeignKeyInfo" /\ f = "on_delete" -> "CASCADE"
      [] cls = "ForeignKeyInfo" /\ f = "on_update" -> "CASCADE"

\* cls(**supplied): the __init__ @dataclass generates gives each field the
\* argument supplied for it, or the field's default when none is supplied
construct(cls, supplied) ==
    /\ last.op = "init"
    /\ last' = [op |-> "construct", cls |-> cls, supplied |-> supplied, raised |-> FALSE,
                obj |-> [cls |-> cls,
                         attrs |-> [f \in Attrs(cls) |->
                                      IF f \in DOMAIN supplied THEN supplied[f]
                                      ELSE Default(cls, f)]]]
    /\ UNCHANGED handles

ValuesNext ==
    \/ \E params \in ParamInputs : DatabaseConnection(params)
    \/ \E k \in ParamKeys, v \in ParamVals : caller_assigns(k, v)
    \/ connect_kwargs
    \/ \E raised \in Kinds, handler \in Kinds \cup {"Exception"} :
          except_clause(raised, handler)
    \/ \E data \in RowSeqs, affected_rows \in 0..1 : QueryResult(data, affected_rows)
    \/ \E cls \in Classes : \E obj \in Instances(cls) :
          \E f \in Attrs(cls) : \E value \in AttrVals(cls, f) : setattr(obj, f, value)
    \/ \E c1 \in Classes, c2 \in Classes :
          /\ c1 = c2 \/ c1 = "OrderByClause"
          /\ \E a \in Instances(c1), b \in Instances(c2) : compare(a, b)
    \/ \E enum \in Enums, text \in EnumTexts : enum_lookup(enum, text)
    \/ \E cls \in Classes \ {"QueryResult"} :
          \E given \in SUBSET (Attrs(cls) \ Required(cls)) :
            \E supplied \in [Required(cls) \cup given -> FieldVals] :
              construct(cls, supplied)

ValuesSpec == Init /\ [][ValuesNext]_vars

------------------------------------------------------------------------------
(* Two threads on one handle.  Thread 1 calls disconnect() on the connected
   handle "own" while thread 2 calls disconnect() or is_connected() on it.
   A step of a thread is one read or write of self._connection with what the
   statement does with the value; the threads' steps interleave in any order.
   `last` holds the two calls in progress: the method, the statement the
   thread is at, and how the call ended. *)

Threads == {1, 2}

Call(method) == [call |-> method, pc |-> "test", exc |-> "None", ret |-> "None"]

\* The handle "own" is connected: it holds the connection r that its latest
\* connect() opened.  Those it opened before r are all closed, each by one
\* disconnect(), or were all left open by a connect() on the connected handle.
RaceInit ==
    /\ \E r \in Resources, earlier \in {"closed", "open"} :
          /\ conn = [h \in Handles |-> IF h = "own" THEN r ELSE None]
          /\ res = [x \in Resources |->
                      IF x = r THEN "open" ELSE IF x < r THEN earlier ELSE "unopened"]
          /\ closeCalls = [x \in Resources |->
                             IF x < r /\ earlier = "closed" THEN 1 ELSE 0]
    /\ depth = [h \in Handles |-> 0]
    /\ client = "unbuilt"
    /\ cdepth = 0
    /\ \E method \in {"disconnect", "is_connected"} :
          last = [op |-> "threads", calls |-> <<Call("disconnect"), Call(method)>>]

\* thread t goes on to statement pc
Goto(t, pc) == last' = [last EXCEPT !.calls[t].pc = pc]

\* the call of thread t ends: it returns ret, or raises exc
Done(t, exc, ret) ==
    last' = [last EXCEPT !.calls[t] = [call |-> @.call, pc |-> "done",
                                       exc |-> exc, ret |-> ret]]

\* disconnect, line 58: if self._connection:
disconnect_test(t) ==
    /\ last.calls[t].call = "disconnect" /\ last.calls[t].pc = "test"
    /\ IF conn["own"] # None THEN Goto(t, "close") ELSE Done(t, "None", "None")
    /\ UNCHANGED handles

\* disconnect, lines 59-62: self._connection is read again for .close(); on
\* None that is an AttributeError, on a connection close() is called and ends
\* in one of its ways; `except Exception: pass` catches either failure
disconnect_close(t) ==
    /\ last.calls[t].call = "disconnect" /\ last.calls[t].pc = "close"
    /\ IF conn["own"] = None
       THEN /\ IF IsSubclass("AttributeError", "Exception")
               THEN Goto(t, "clear")
               ELSE last' = [last EXCEPT !.calls[t].pc = "clear",
                                         !.calls[t].exc = "AttributeError"]
            /\ UNCHANGED handles
       ELSE \E c \in CloseOutcomes :
              /\ closeCalls' = [closeCalls EXCEPT ![conn["own"]] = @ + 1]
              /\ res' = [res EXCEPT ![conn["own"]] = IF c.released THEN "closed" ELSE @]
              /\ IF c.ok \/ IsSubclass(c.type, "Exception")
                 THEN Goto(t, "clear")
                 ELSE last' = [last EXCEPT !.calls[t].pc = "clear",
                                           !.calls[t].exc = c.type]
              /\ UNCHANGED <<conn, depth, client, cdepth>>

\* disconnect, lines 63-64: finally: self._connection = None; an exception
\* that was not caught goes on to the caller after it
disconnect_clear(t) ==
    /\ last.calls[t].call = "disconnect" /\ last.calls[t].pc = "clear"
    /\ conn' = [conn EXCEPT !["own"] = None]
    /\ Done(t, last.calls[t].exc, "None")
    /\ UNCHANGED <<res, closeCalls, depth, client, cdepth>>

\* is_connected, line 86, left operand: self._connection is not None
is_connected_test(t) ==
    /\ last.calls[t].call = "is_connected" /\ last.calls[t].pc = "test"
    /\ IF conn["own"] # None THEN Goto(t, "closed") ELSE Done(t, "None", "False")
    /\ UNCHANGED handles

\* is_connected, line 86, right operand: self._connection is read again for
\* .closed; on None that is an AttributeError, which nothing catches
is_connected_closed(t) ==
    /\ last.calls[t].call = "is_connected" /\ last.calls[t].pc = "closed"
    /\ IF conn["own"] = None
       THEN Done(t, "AttributeError", "None")
       ELSE Done(t, "None", IF res[conn["own"]] # "closed" THEN "True" ELSE "False")
    /\ UNCHANGED handles

RaceNext ==
    \/ \E t \in Threads : disconnect_test(t)
    \/ \E t \in Threads : disconnect_close(t)
    \/ \E t \in Threads : disconnect_clear(t)
    \/ \E t \in Threads : is_connected_test(t)
    \/ \E t \in Threads : is_connected_closed(t)

RaceSpec == RaceInit /\ [][RaceNext]_vars

------------------------------------------------------------------------------
(* Properties *)

\* C1: in the state right after connect() returned, is_connected() is true; in
\* the state right after disconnect() returned, is_connected() is false.
C1_ConnectedAfterConnect ==
    /\ (last.op = "connect" /\ ~last.raised) => is_connected(last.h)
    /\ (last.op = "disconnect" /\ ~last.raised) => ~is_connected(last.h)

\* a disconnect() of a handle that held a connection has just returned, on a
\* handle that an earlier connect() had made connected
C1_Witness ==
    /\ last.op = "disconnect" /\ ~last.raised
    /\ last.pre # None /\ closeCalls[last.pre] = 1

\* C2: when a `with handle:` block has ended (its __exit__ has run), by the body
\* finishing or by the body raising, is_connected() is false, whatever the
\* handle held before the block.
C2_ScopeEndsDisconnected ==
    last.op = "exit" => ~is_connected(last.h)

\* a block left by a failure of its body, on a handle still connected at exit
C2_Witness ==
    /\ last.op = "exit" /\ last.how = "raise" /\ last.raised
    /\ last.pre # None /\ closeCalls[last.pre] = 1

\* C3 as stated: when a `with client:` block has ended, is_connected() is true.
C3_ScopeEndsConnected ==
    last.op = "client_exit" => client_is_connected

\* C3, amended: the exit of a `with client:` block, normal or by a failure,
\* calls close() on nothing and leaves the handle's reference, the resources
\* and so the value of is_connected() as the body left them.
C3_ExitKeepsConnection ==
    [][ (last'.op = "client_exit" /\ cdepth' = cdepth - 1)
        => /\ conn' = conn
           /\ res' = res
           /\ closeCalls' = closeCalls
           /\ client_is_connected' = client_is_connected ]_vars

\* a block on a connected client left by a failure of its body: still connected
C3_Witness ==
    /\ last.op = "client_exit" /\ last.how = "raise" /\ last.raised
    /\ client_is_connected

\* C4: on every handle the `connection` accessor raises exactly when
\* is_connected() is false, so it never returns a closed resource.
C4_AccessorRaisesIffNotConnected ==
    \A h \in Handles :
        Alive(h) => ((connection_exc(h) # NoExc) <=> ~is_connected(h))

\* C5 as stated: whenever the driver's connect call fails inside connect(),
\* whatever it raised, connect() raises a ConnectionError whose message
\* contains the original text.
C5_EveryFailureWrapped ==
    (last.op = "connect" /\ last.drv # NoOrig)
        => /\ last.raised
           /\ last.exc.type = "ConnectionError"
           /\ Contains(last.exc.msg, last.drv.text)

\* C5, amended: a failure of the driver's connect call that is a psycopg.Error
\* (of any subclass) leaves connect() as a ConnectionError whose message is
\* "Failed to connect to database: " followed by the original text, and never
\* as the psycopg exception; an exception of another class raised by the call
\* (TypeError) leaves connect() unchanged.
C5_DriverErrorWrapped ==
    (last.op \in {"connect", "enter"} /\ last.drv # NoOrig)
        => /\ last.raised
           /\ ~IsSubclass(last.exc.type, "psycopg.Error")
           /\ IF IsSubclass(last.drv.type, "psycopg.Error")
              THEN /\ last.exc.type = "ConnectionError"
                   /\ Contains(last.exc.msg, last.drv.text)
                   /\ last.exc.msg = FailedToConnect \o last.drv.text
              ELSE last.exc = Raw(last.drv.type, last.drv.text)

\* connect() has just raised ConnectionError for a psycopg.OperationalError
\* whose text is two words long
C5_Witness ==
    /\ last.op = "connect" /\ last.raised
    /\ last.drv = [type |-> "psycopg.OperationalError", text |-> <<"auth", "failed">>]
    /\ last.exc.type = "ConnectionError"

\* C6: whenever connect() raises, the handle is disconnected and its reference
\* is cleared, whatever it held before the call.
C6_FailedConnectLeavesDisconnected ==
    (last.op = "connect" /\ last.raised)
        => (~is_connected(last.h) /\ conn[last.h] = None)

\* C7: a ConnectionError raised by connect() has the driver's failure as its
\* __cause__, and that failure's text is part of its message.
C7_CauseIsDriverFailure ==
    (last.op = "connect" /\ last.raised /\ last.exc.type = "ConnectionError")
        => /\ last.exc.cause = last.drv
           /\ last.exc.cause # NoOrig
           /\ Contains(last.exc.msg, last.exc.cause.text)

\* C8: disconnect() never raises, also when close() failed, and the handle's
\* reference is None afterwards in both cases.
C8_DisconnectNeverRaises ==
    last.op = "disconnect" => (~last.raised /\ conn[last.h] = None)

\* a disconnect() whose close() raised, leaving the physical connection open
C8_Witness ==
    /\ last.op = "disconnect" /\ last.closeFailed
    /\ last.pre # None /\ res[last.pre] = "open"

\* C9: a disconnect() of a handle that holds nothing returns without raising
\* and changes nothing (no close() call, same references, same resources); and
\* no resource ever has close() called on it twice by handles.
C9_DisconnectIdempotent ==
    /\ [][ (last'.op = "disconnect" /\ conn[last'.h] = None)
            => /\ ~last'.raised
               /\ UNCHANGED <<conn, res, closeCalls, depth, client, cdepth>> ]_vars
    /\ [](\A r \in Resources : closeCalls[r] <= 1)

\* a disconnect() of a handle that held nothing has returned, after the first
\* connection was opened and closed by its one close() call; no handle holds
\* anything
C9_Witness ==
    /\ last.op = "disconnect" /\ last.pre = None /\ ~last.raised
    /\ res[1] # "unopened" /\ closeCalls[1] = 1
    /\ \A h \in Handles : conn[h] = None

\* C10: the client's `connection` accessor gives what its handle's accessor
\* gives: the held resource when there is one, the not-connected error if not.
C10_ClientAccessorDelegates ==
    client = "built"
        => /\ client_connection_exc = connection_exc(ClientHandle)
           /\ (connection_exc(ClientHandle) = NoExc
                  => client_connection = connection(ClientHandle))

\* C11: a DatabaseClient.connect() on a connected client opens no connection,
\* leaves the held resource and every resource as they are and returns the
\* client; on a client that is not connected it makes one connect on the owned
\* handle: either one new connection is opened, the handle holds it and the
\* client is returned, or the driver's failure is raised and nothing changes.
C11_ClientConnectOnlyIfNeeded ==
    [][ last'.op = "client_connect"
        => IF client_is_connected
           THEN /\ UNCHANGED <<conn, res, closeCalls>>
                /\ last'.drv = NoOrig
                /\ last'.ret = "client"
           ELSE \/ /\ last'.ret = "client"
                   /\ Opened' = Opened + 1
                   /\ conn' = [conn EXCEPT ![ClientHandle] = NextId]
                   /\ res' = [res EXCEPT ![NextId] = "open"]
                   /\ client_is_connected'
                \/ /\ last'.raised
                   /\ last'.drv # NoOrig
                   /\ UNCHANGED <<conn, res, closeCalls>> ]_vars

\* connect() has returned on a client that was connected: it still holds the
\* connection it held, and that is the only one ever opened
C11_Witness ==
    /\ last.op = "client_connect" /\ last.ret = "client"
    /\ last.pre # None /\ conn[ClientHandle] = last.pre
    /\ client_is_connected /\ Opened = 1

\* C12: constructing a DatabaseClient with auto_connect makes one connect on
\* the owned handle: either one new connection is opened and the client that
\* results is connected, or no client results and the caller gets what the
\* handle's connect() raised, which for a failure of the driver is a
\* ConnectionError; without auto_connect the constructor calls the driver not
\* at all, never raises, and the client starts disconnected.
C12_ConstructionConnectsOnce ==
    [][ last'.op = "client_init"
        => IF last'.how = "auto"
           THEN \/ /\ ~last'.raised
                   /\ client' = "built"
                   /\ Opened' = Opened + 1
                   /\ conn' = [conn EXCEPT ![ClientHandle] = NextId]
                   /\ client_is_connected'
                \/ /\ last'.raised
                   /\ client' = "unbuilt"
                   /\ last'.drv # NoOrig
                   /\ IsSubclass(last'.drv.type, "psycopg.Error")
                        => last'.exc.type = "ConnectionError"
                   /\ UNCHANGED <<conn, res, closeCalls>>
           ELSE /\ ~last'.raised
                /\ client' = "built"
                /\ last'.drv = NoOrig
                /\ UNCHANGED <<conn, res, closeCalls>>
                /\ ~client_is_connected' ]_vars

\* a client was constructed with auto_connect and is connected
C12_Witness ==
    /\ last.op = "client_init" /\ last.how = "auto" /\ ~last.raised
    /\ client = "built" /\ client_is_connected

\* C13: in every state is_connected() of a handle is true exactly when the
\* handle holds a resource and that resource is open now; in particular right
\* after a held resource was closed with no call on the handle, is_connected()
\* is false although the handle still holds the reference.
C13_IsConnectedChecksLiveness ==
    /\ \A h \in Handles :
          is_connected(h) <=> (conn[h] # None /\ res[conn[h]] = "open")
    /\ last.op = "closed_out_of_band"
         => \A h \in Handles : conn[h] = last.pre => ~is_connected(h)

\* a resource a handle holds was closed out-of-band and the handle holds it still
C13_Witness ==
    /\ last.op = "closed_out_of_band"
    /\ \E h \in Handles : conn[h] = last.pre /\ ~is_connected(h)

\* C14: a handle owns at most one open physical connection: when a connect()
\* or __enter__ on a handle that held a resource has returned with a new one,
\* the resource it held before (which only that handle's own connect can have
\* given it) is not open any more, and after a disconnect() whose close()
\* succeeded the resource the handle held is not open.
C14_AtMostOneOpenPerHandle ==
    /\ (last.op \in {"connect", "enter"} /\ ~last.raised /\ last.pre # None)
         => res[last.pre] # "open"
    /\ (last.op = "disconnect" /\ last.pre # None /\ ~last.closeFailed)
         => res[last.pre] # "open"

\* C16: a call of any operation on one handle (or on the client, which acts on
\* the handle it owns) leaves every other handle's held reference and
\* is_connected() result as they were, whether the call returned or raised.
C16_HandlesShareNoState ==
    [][ last'.op # "closed_out_of_band"
        => \A h \in Handles \ {last'.h} :
              /\ conn'[h] = conn[h]
              /\ is_connected(h)' = is_connected(h) ]_vars

\* connect() has returned on one handle while the other handle is connected:
\* the two hold different open resources
C16_Witness ==
    /\ last.op = "connect" /\ last.h = "own" /\ ~last.raised
    /\ is_connected("own") /\ is_connected(ClientHandle)
    /\ conn["own"] # conn[ClientHandle]

\* C15: the handle a construction gives holds, for a dict without to_dict, the
\* dict's items; for any object with to_dict, what to_dict returns; for any
\* other input, the empty mapping; and the construction does not raise.
C15_ParamsNormalized ==
    last.op = "DatabaseConnection"
    => /\ ~last.raised
       /\ last.arg.has_to_dict => last.connection_params = last.arg.to_dict
       /\ (last.arg.isdict /\ ~last.arg.has_to_dict)
            => last.connection_params = last.arg.items
       /\ (~last.arg.isdict /\ ~last.arg.has_to_dict)
            => last.connection_params = EmptyMapping

\* a handle was constructed from an object whose to_dict returns a mapping
\* that has entries
C15_Witness ==
    /\ last.op = "DatabaseConnection"
    /\ ~last.arg.isdict /\ last.arg.has_to_dict
    /\ last.connection_params = last.arg.to_dict
    /\ DOMAIN last.connection_params = ParamKeys

\* C17: PrimaryKeyError derives from SchemaError, and SchemaError and every
\* other class but the root derive from PgpxError directly; so a handler for
\* PgpxError catches an error of every class, a handler for SchemaError
\* catches a PrimaryKeyError, and a handler for one of the direct children
\* catches an error of no other direct child, nor a PrimaryKeyError unless it
\* is the handler for SchemaError.
C17_Taxonomy ==
    LET Children == Kinds \ {"PgpxError", "PrimaryKeyError"} IN
    /\ Base("PrimaryKeyError") = "SchemaError"
    /\ \A k \in Children : Base(k) = "PgpxError"
    /\ last.op = "except"
         => /\ last.handler = "PgpxError" => last.caught
            /\ (last.exc.type \in Children /\ last.handler \in Children
                  /\ last.exc.type # last.handler) => ~last.caught
            /\ last.exc.type = "PrimaryKeyError"
                 => (last.caught <=> last.handler \in
                       {"PrimaryKeyError", "SchemaError", "PgpxError", "Exception"})

\* a PrimaryKeyError was raised under a handler for SchemaError, which caught it
C17_Witness ==
    /\ last.op = "except" /\ last.exc.type = "PrimaryKeyError"
    /\ last.handler = "SchemaError" /\ last.caught

\* C18: a QueryResult built from a sequence of rows is true exactly when the
\* sequence has a row, its length is the number of rows, first() and last()
\* give the first and the last row when there is one and None when there is
\* none, and none of the four raises.
C18_QueryResultEnds ==
    last.op = "QueryResult"
    => LET data == last.self.attrs.data IN
       /\ ~last.raised
       /\ last.bool <=> data # <<>>
       /\ last.len = Len(data)
       /\ data # <<>> => last.first = Head(data) /\ last.last = data[Len(data)]
       /\ data = <<>> => last.first = "None" /\ last.last = "None"

\* a QueryResult of two different rows was asked: first() and last() differ
C18_Witness ==
    /\ last.op = "QueryResult" /\ last.len = 2
    /\ last.bool /\ last.first # last.last

C20_ValueEquality ==
    (last.op = "eq" /\ last.a.cls = last.b.cls)
    => (last.result <=> last.a.attrs = last.b.attrs)

\* the members the vocabularies are listed with
C21_Listed(enum) ==
    CASE enum = "ConflictAction" -> {"DO_NOTHING", "DO_UPDATE"}
      [] enum = "FieldType" ->
           {"TEXT", "INTEGER", "FLOAT", "BOOLEAN", "BYTEA", "TIMESTAMP", "DATE",
            "UUID", "JSON", "JSONB", "ARRAY"}
      [] enum = "JoinType" -> {"INNER", "LEFT", "RIGHT", "FULL"}
      [] enum = "ComparisonOperator" ->
           {"EQ", "NE", "LT", "LTE", "GT", "GTE", "LIKE", "ILIKE", "IN", "NOT_IN",
            "IS_NULL", "IS_NOT_NULL", "BETWEEN", "EXISTS"}
      [] enum = "LogicalOperator" -> {"AND", "OR", "NOT"}
      [] enum = "MigrationDirection" -> {"UP", "DOWN"}
      [] enum = "IsolationLevel" ->
           {"READ_UNCOMMITTED", "READ_COMMITTED", "REPEATABLE_READ", "SERIALIZABLE"}
      [] enum = "RelationshipType" ->
           {"ONE_TO_ONE", "ONE_TO_MANY", "MANY_TO_ONE", "MANY_TO_MANY"}

\* C21: the members of each Enum class are exactly the listed ones and have
\* pairwise different values; looking a member's value up gives that member,
\* whose value is the text looked up; a lookup succeeds only for the value of
\* a member and raises ValueError for any other text.
C21_EnumRoundTrip ==
    /\ \A enum \in Enums :
          /\ EnumMembers(enum) = C21_Listed(enum)
          /\ \A m \in C21_Listed(enum), n \in C21_Listed(enum) :
                m # n => EnumValue(enum, m) # EnumValue(enum, n)
          /\ \A m \in C21_Listed(enum) :
                /\ EnumHas(enum, EnumValue(enum, m))
                /\ EnumLookup(enum, EnumValue(enum, m)) = m
    /\ last.op = "enum"
         => /\ ~last.raised <=> \E m \in C21_Listed(last.enum) :
                                   EnumValue(last.enum, m) = last.arg
            /\ ~last.raised => last.value = last.arg /\ last.member \in C21_Listed(last.enum)
            /\ last.raised => last.exc.type = "ValueError" /\ last.member = "None"

\* the value of ComparisonOperator.NOT_IN was looked up: the member found is
\* NOT_IN and its value is the text
C21_Witness ==
    /\ last.op = "enum" /\ last.enum = "ComparisonOperator" /\ last.arg = "NOT IN"
    /\ last.member = "NOT_IN" /\ last.value = "NOT IN"

\* the defaults the clause types are listed with
C22_Listed(cls) ==
    CASE cls = "JoinClause" -> [join_type |-> "JoinType.INNER", alias |-> "None"]
      [] cls = "WhereClause" -> [logical_op |-> "LogicalOperator.AND"]
      [] cls = "OrderByClause" -> [ascending |-> "True"]
      [] cls = "ForeignKeyReference" -> [field |-> "id"]
      [] cls = "RelationshipInfo" ->
           [back_populates |-> "None", lazy |-> "True", cascade |-> "None"]
      [] cls = "ForeignKeyInfo" ->
           [ref_field |-> "id", on_delete |-> "CASCADE", on_update |-> "CASCADE"]

\* C22: an instance built with some of its optional fields left out has the
\* listed default in each field left out, and in each field supplied the
\* value supplied.
C22_DefaultsAsListed ==
    last.op = "construct"
    => /\ ~last.raised
       /\ \A f \in Attrs(last.cls) :
             IF f \in DOMAIN last.supplied
             THEN last.obj.attrs[f] = last.supplied[f]
             ELSE /\ f \in DOMAIN C22_Listed(last.cls)
                  /\ last.obj.attrs[f] = C22_Listed(last.cls)[f]

\* a ForeignKeyInfo was built with on_delete supplied and the other optional
\* fields left out
C22_Witness ==
    /\ last.op = "construct" /\ last.cls = "ForeignKeyInfo"
    /\ DOMAIN last.supplied = {"field", "ref_table", "on_delete"}
    /\ last.obj.attrs["on_delete"] = last.supplied["on_delete"]
    /\ last.obj.attrs["ref_field"] = "id"
    /\ last.obj.attrs["on_update"] = "CASCADE"

\* C24: what connect() passes to the driver is the mapping the handle's
\* parameters were normalised to at construction, also when the caller has
\* changed the mapping it supplied since.
C24_ParamsFixedAtConstruction ==
    last.op = "psycopg.connect" => last.kwargs = last.at_construction

\* C23: the connection a `with handle:` block opened on entry has had close()
\* called on it exactly once whenever an __exit__ of the handle has brought it
\* out of all its blocks, whatever the body did.
C23_EntryConnectionClosedOnce ==
    (last.op = "exit" /\ depth[last.h] = 0)
    => closeCalls[last.entered[last.h]] = 1

\* C25: when the body of a `with` block on a handle or on a client raised, the
\* caller gets that exception, the same in class, message, cause and context,
\* once __exit__ has run, also when the close() made by __exit__ failed.
C25_BodyFailurePropagates ==
    (last.op \in {"exit", "client_exit"} /\ last.how = "raise")
    => last.raised /\ last.exc = BodyExc

\* a block on a connected handle was left by a failure of its body, and the
\* close() that __exit__ made failed as well
C25_Witness ==
    /\ last.op = "exit" /\ last.how = "raise" /\ last.pre # None
    /\ last.closeFailed /\ last.exc = BodyExc

\* C26: with disconnect() running in one thread and disconnect() or
\* is_connected() in another on the same connected handle, no call that has
\* ended has raised, and when both have ended the handle holds no resource.
C26_ConcurrentCallsNeverRaise ==
    last.op = "threads"
    => /\ \A t \in Threads :
             last.calls[t].pc = "done" => last.calls[t].exc = "None"
       /\ (\A t \in Threads : last.calls[t].pc = "done") => conn["own"] = None
====
